---------------------------- MODULE Spec2Model ----------------------------
(***************************************************************************)
(* Model of the PDF OCR background pipeline of backend/app:                *)
(*   api/pdfs.py                      process_pdf_background               *)
(*   services/textract.py             TextractService                      *)
(*   services/langchain_processor.py  LangChainProcessor                   *)
(* One run of the pipeline for one uploaded document is modelled.  The     *)
(* document-analysis service, the language model and the database commit   *)
(* are the environment: their outcomes are chosen nondeterministically.    *)
(***************************************************************************)
EXTENDS Naturals, Sequences, FiniteSets, TLC

(***************************************************************************)
(* Bounds of the model.                                                    *)
(***************************************************************************)
MaxWords == 2   \* WORD children of the key block and of the value block
MaxLines == 1   \* LINE blocks of a response

(***************************************************************************)
(* Program constants.                                                      *)
(***************************************************************************)
max_retries == 3

\* The one document of the model: the id the database gives its row.
pdf_id == 1

(***************************************************************************)
(* Python values.  An Optional column or field is None or Some(v); a dict  *)
(* is a function from its keys; a list is a sequence.                      *)
(***************************************************************************)
None == <<>>
Some(v) == <<v>>
EmptyDict == <<>>
\* Mutant of DictSet: a key that is present keeps its value.
DictSet_KeepFirst(d, k, v) ==
    [x \in (DOMAIN d) \cup {k} |-> IF x \in DOMAIN d THEN d[x] ELSE v]

DictSet(d, k, v) == [x \in (DOMAIN d) \cup {k} |-> IF x = k THEN v ELSE d[x]]

\* The outcome of a call: a returned value or a raised exception whose
\* str() is msg.
Return(v) == [raised |-> FALSE, value |-> v]
Raise(m) == [raised |-> TRUE, value |-> m]

(***************************************************************************)
(* Python string operations used by the code.                              *)
(***************************************************************************)
IsSpace(c) == c \in {" ", "\n", "\t"}

RECURSIVE LStrip(_)
LStrip(s) ==
    IF Len(s) = 0 THEN s
    ELSE IF IsSpace(SubSeq(s, 1, 1)) THEN LStrip(SubSeq(s, 2, Len(s)))
    ELSE s

RECURSIVE RStrip(_)
RStrip(s) ==
    IF Len(s) = 0 THEN s
    ELSE IF IsSpace(SubSeq(s, Len(s), Len(s))) THEN RStrip(SubSeq(s, 1, Len(s) - 1))
    ELSE s

\* str.strip()
Strip(s) == RStrip(LStrip(s))

\* str.startswith / str.endswith / 'sub in s'
StartsWith(s, p) == Len(s) >= Len(p) /\ SubSeq(s, 1, Len(p)) = p
EndsWith(s, p) == Len(s) >= Len(p) /\ SubSeq(s, Len(s) - Len(p) + 1, Len(s)) = p
Contains(s, sub) ==
    \E i \in 1..(Len(s) + 1) :
        i + Len(sub) - 1 <= Len(s) /\ SubSeq(s, i, i + Len(sub) - 1) = sub

(***************************************************************************)
(* Textract blocks.  A block is a record                                   *)
(*   Id, BlockType, Text, EntityTypes, Relationships, Geometry, Confidence *)
(* An absent Text is "" and absent Relationships are <<>>, as the code     *)
(* reads them (block.get('Text', ''), 'Relationships' in block); an   *)
(* absent Geometry is None and an absent Confidence is None.               *)
(***************************************************************************)
Block(id, type, text, entity, rels, geom, conf) ==
    [Id |-> id, BlockType |-> type, Text |-> text, EntityTypes |-> entity,
     Relationships |-> rels, Geometry |-> geom, Confidence |-> conf]

Rel(type, ids) == [Type |-> type, Ids |-> ids]
BBox(l, t, w, h) == [Left |-> l, Top |-> t, Width |-> w, Height |-> h]

\* schemas/pdf.py BoundingBox and OCRResult
BoundingBox(x, y, width, height, page, text, confidence) ==
    [x |-> x, y |-> y, width |-> width, height |-> height, page |-> page,
     text |-> text, confidence |-> confidence]

OCRResult(text, bounding_boxes, structured_data) ==
    [text |-> text, bounding_boxes |-> bounding_boxes,
     structured_data |-> structured_data]

\* block_map = {block['Id']: block for block in blocks}: a later block with
\* the same Id replaces the earlier one; the key keeps its first position.
BlockIds(blocks) == {blocks[i].Id : i \in DOMAIN blocks}

block_map(blocks) ==
    [id \in BlockIds(blocks) |->
        LET last == CHOOSE i \in DOMAIN blocks :
                        /\ blocks[i].Id = id
                        /\ \A j \in DOMAIN blocks : blocks[j].Id = id => j <= i
        IN  blocks[last]]

RECURSIVE block_map_order(_)
block_map_order(blocks) ==
    IF blocks = <<>> THEN <<>>
    ELSE LET init == block_map_order(SubSeq(blocks, 1, Len(blocks) - 1))
             id == blocks[Len(blocks)].Id
         IN  IF \E i \in DOMAIN init : init[i] = id THEN init
             ELSE Append(init, id)

\* Mutant of WordChildren: the texts are appended without the space.
RECURSIVE WordChildren_NoSpace(_, _, _)
WordChildren_NoSpace(bm, ids, text) ==
    IF ids = <<>> THEN Return(text)
    ELSE LET child_id == Head(ids)
         IN  IF child_id \notin DOMAIN bm THEN Raise("'" \o child_id \o "'")
             ELSE WordChildren_NoSpace(bm, Tail(ids),
                                       IF bm[child_id].BlockType = "WORD"
                                       THEN text \o bm[child_id].Text
                                       ELSE text)

\* for child_id in relationship['Ids']:
\*     child_block = block_map[child_id]          (KeyError when absent)
\*     if child_block['BlockType'] == 'WORD': text += child_block.get('Text', '') + " "
RECURSIVE WordChildren(_, _, _)
WordChildren(bm, ids, text) ==
    IF ids = <<>> THEN Return(text)
    ELSE LET child_id == Head(ids)
         IN  IF child_id \notin DOMAIN bm THEN Raise("'" \o child_id \o "'")
             ELSE WordChildren(bm, Tail(ids),
                               IF bm[child_id].BlockType = "WORD"
                               THEN text \o bm[child_id].Text \o " "
                               ELSE text)

\* for relationship in block['Relationships']:
\*     if relationship['Type'] == 'CHILD': (the loop above)
RECURSIVE ChildRelationships(_, _, _)
ChildRelationships(bm, rels, text) ==
    IF rels = <<>> THEN Return(text)
    ELSE IF Head(rels).Type = "CHILD"
         THEN LET r == WordChildren(bm, Head(rels).Ids, text)
              IN  IF r.raised THEN r
                  ELSE ChildRelationships(bm, Tail(rels), r.value)
         ELSE ChildRelationships(bm, Tail(rels), text)

\* Mutant of ValueTargets: each target starts the value text afresh.
RECURSIVE ValueTargets_LastWins(_, _, _)
ValueTargets_LastWins(bm, ids, text) ==
    IF ids = <<>> THEN Return(text)
    ELSE LET value_id == Head(ids)
         IN  IF value_id \notin DOMAIN bm THEN Raise("'" \o value_id \o "'")
             ELSE LET r == ChildRelationships(bm, bm[value_id].Relationships, "")
                  IN  IF r.raised THEN r
                      ELSE ValueTargets_LastWins(bm, Tail(ids), r.value)

\* for value_id in relationship['Ids']:
\*     value_block = block_map[value_id]          (KeyError when absent)
\*     (CHILD relationships of value_block, as above)
RECURSIVE ValueTargets(_, _, _)
ValueTargets(bm, ids, text) ==
    IF ids = <<>> THEN Return(text)
    ELSE LET value_id == Head(ids)
         IN  IF value_id \notin DOMAIN bm THEN Raise("'" \o value_id \o "'")
             ELSE LET r == ChildRelationships(bm, bm[value_id].Relationships, text)
                  IN  IF r.raised THEN r
                      ELSE ValueTargets(bm, Tail(ids), r.value)

\* for relationship in key_block['Relationships']:
\*     if relationship['Type'] == 'VALUE': (the loop above)
RECURSIVE ValueRelationships(_, _, _)
ValueRelationships(bm, rels, text) ==
    IF rels = <<>> THEN Return(text)
    ELSE IF Head(rels).Type = "VALUE"
         THEN LET r == ValueTargets(bm, Head(rels).Ids, text)
              IN  IF r.raised THEN r
                  ELSE ValueRelationships(bm, Tail(rels), r.value)
         ELSE ValueRelationships(bm, Tail(rels), text)

\* Mutant of KeyBlockStep: the pair is recorded whatever the texts are.
KeyBlockStep_Always(bm, block, form_data) ==
    IF block.BlockType = "KEY_VALUE_SET" /\ block.EntityTypes = <<"KEY">>
    THEN LET k == ChildRelationships(bm, block.Relationships, "")
         IN  IF k.raised THEN k
             ELSE LET v == ValueRelationships(bm, block.Relationships, "")
                  IN  IF v.raised THEN v
                      ELSE Return(DictSet(form_data, Strip(k.value), Strip(v.value)))
    ELSE Return(form_data)

\* The body of the loop over block_map.items() for one block.
KeyBlockStep(bm, block, form_data) ==
    IF block.BlockType = "KEY_VALUE_SET" /\ block.EntityTypes = <<"KEY">>
    THEN LET k == ChildRelationships(bm, block.Relationships, "")
         IN  IF k.raised THEN k
             ELSE LET key_text == Strip(k.value)
                      v == ValueRelationships(bm, block.Relationships, "")
                  IN  IF v.raised THEN v
                      ELSE LET value_text == Strip(v.value)
                           IN  IF key_text # "" /\ value_text # ""
                               THEN Return(DictSet(form_data, key_text, value_text))
                               ELSE Return(form_data)
    ELSE Return(form_data)

RECURSIVE FormDataLoop(_, _, _)
FormDataLoop(bm, order, form_data) ==
    IF order = <<>> THEN Return(form_data)
    ELSE LET r == KeyBlockStep(bm, bm[Head(order)], form_data)
         IN  IF r.raised THEN r
             ELSE FormDataLoop(bm, Tail(order), r.value)

\* TextractService._extract_form_data
_extract_form_data(blocks) ==
    FormDataLoop(block_map(blocks), block_map_order(blocks), EmptyDict)

\* The LINE loop of _process_textract_response: the full text.
RECURSIVE FullText(_)
FullText(blocks) ==
    IF blocks = <<>> THEN ""
    ELSE LET block == blocks[Len(blocks)]
             init == FullText(SubSeq(blocks, 1, Len(blocks) - 1))
         IN  IF block.BlockType = "LINE" THEN init \o block.Text \o "\n"
             ELSE init

\* The LINE loop of _process_textract_response: the fragment list.
RECURSIVE LineBoxes(_)
LineBoxes(blocks) ==
    IF blocks = <<>> THEN <<>>
    ELSE LET block == blocks[Len(blocks)]
             init == LineBoxes(SubSeq(blocks, 1, Len(blocks) - 1))
         IN  IF block.BlockType = "LINE" /\ block.Geometry # None
             THEN LET bbox == block.Geometry[1]
                  IN  Append(init,
                             BoundingBox(bbox.Left, bbox.Top, bbox.Width,
                                         bbox.Height, 1, block.Text,
                                         IF block.Confidence = None THEN 0
                                         ELSE block.Confidence[1]))
             ELSE init

\* TextractService._process_textract_response
_process_textract_response(blocks) ==
    LET structured_data == _extract_form_data(blocks)
    IN  IF structured_data.raised THEN structured_data
        ELSE Return(OCRResult(FullText(blocks), LineBoxes(blocks),
                              Some(structured_data.value)))


\* TextractService.analyze_document.  outcome is what the Textract client
\* does: it returns a response, raises a ClientError or raises another
\* exception; msg is str(e).
UnsupportedMessage ==
    "An error occurred (UnsupportedDocumentException) when calling the AnalyzeDocument operation: Request has unsupported document format"

analyze_document(outcome) ==
    IF outcome.kind = "response"
    THEN _process_textract_response(outcome.blocks)
    ELSE IF outcome.kind = "client_error"
              /\ Contains(outcome.msg, "UnsupportedDocumentException")
         THEN Return(OCRResult("", <<>>, Some([error |-> UnsupportedMessage])))
         ELSE Raise(outcome.msg)

(***************************************************************************)
(* LangChainProcessor.process_ocr_text.  llm is what replicate.run does:   *)
(* it yields chunks of text or raises.                                     *)
(***************************************************************************)
RECURSIVE Join(_)
Join(chunks) == IF chunks = <<>> THEN "" ELSE Head(chunks) \o Join(Tail(chunks))

\* json.loads on the model outputs of the model: the documents below parse
\* to the given objects, every other text raises JSONDecodeError.
JsonDocuments ==
    { <<"{\"name\": \"John\"}", [name |-> "John"]>>,
      <<"{\"error\": \"no data\"}", [error |-> "no data"]>>,
      <<"{}", EmptyDict>> }

json_loads(s) ==
    IF \E d \in JsonDocuments : d[1] = s
    THEN Return((CHOOSE d \in JsonDocuments : d[1] = s)[2])
    ELSE Raise("Expecting value: line 1 column 1 (char 0)")

\* The fence marker of a code block, three backticks in the source.  A TLA+
\* string cannot hold a backtick: the character is written ' here, in the
\* fence and in the model outputs alike.
Fence == "'''"

CleanResult(output) ==
    LET joined == Strip(Join(output))
        unfenced == IF StartsWith(joined, Fence \o "json")
                    THEN SubSeq(joined, 8, Len(joined))
                    ELSE joined
    IN  IF EndsWith(unfenced, Fence)
        THEN SubSeq(unfenced, 1, Len(unfenced) - 3)
        ELSE unfenced

\* Mutant of process_ocr_text: the fallback of a parse failure carries the
\* output of the model.
process_ocr_text_RawOutput(text, llm) ==
    IF llm.kind = "raise"
    THEN Return([error |-> llm.msg, raw_text |-> text])
    ELSE LET structured_data == json_loads(Strip(CleanResult(llm.output)))
         IN  IF structured_data.raised
             THEN Return([error |-> "Failed to parse structured data",
                          raw_text |-> CleanResult(llm.output)])
             ELSE structured_data

process_ocr_text(text, llm) ==
    IF llm.kind = "raise"
    THEN Return([error |-> llm.msg, raw_text |-> text])
    ELSE LET structured_data == json_loads(Strip(CleanResult(llm.output)))
         IN  IF structured_data.raised
             THEN Return([error |-> "Failed to parse structured data",
                          raw_text |-> text])
             ELSE structured_data

(***************************************************************************)
(* The inputs of a run.                                                    *)
(***************************************************************************)
SeqsUpTo(S, n) == UNION {[1..k -> S] : k \in 0..n}

KeyWords == {"error", "Name"}
ValueWords == {"John"}
LineKinds ==
    { [text |-> "Hello", geom |-> Some(BBox(10, 20, 30, 5)), conf |-> Some(99)],
      [text |-> "Total", geom |-> None, conf |-> None] }

Digit(i) == SubSeq("123456789", i, i)

LineBlocks(lines) ==
    [i \in DOMAIN lines |->
        Block("l" \o Digit(i), "LINE", lines[i].text, <<>>, <<>>,
              lines[i].geom, lines[i].conf)]

WordBlocks(prefix, words) ==
    [i \in DOMAIN words |->
        Block(prefix \o Digit(i), "WORD", words[i], <<>>, <<>>, None, None)]

WordIds(prefix, words) == [i \in DOMAIN words |-> prefix \o Digit(i)]

\* The blocks of one form field: a KEY block whose CHILD words are kw, linked
\* by VALUE to a VALUE block whose CHILD words are vw.  n names the field.
FieldBlocks(n, kw, vw) ==
    << Block("key" \o n, "KEY_VALUE_SET", "", <<"KEY">>,
             <<Rel("CHILD", WordIds("kw" \o n, kw)), Rel("VALUE", <<"val" \o n>>)>>,
             None, None),
       Block("val" \o n, "KEY_VALUE_SET", "", <<"VALUE">>,
             <<Rel("CHILD", WordIds("vw" \o n, vw))>>, None, None) >>
    \o WordBlocks("kw" \o n, kw) \o WordBlocks("vw" \o n, vw)

\* A second field of the page, when it has one.
SecondFields ==
    { <<>>,
      FieldBlocks("B", <<"Name">>, <<"Mary">>),
      FieldBlocks("B", <<"error">>, <<"boom">>) }

\* A page with lines and one or two form fields.
FormResponse(lines, kw, vw, second) ==
    LineBlocks(lines) \o FieldBlocks("A", kw, vw) \o second

\* A page whose KEY block names a child that is not in the response.
DanglingResponse(lines) ==
    LineBlocks(lines)
    \o << Block("key", "KEY_VALUE_SET", "", <<"KEY">>,
                <<Rel("CHILD", <<"missing">>)>>, None, None) >>

Responses ==
    {FormResponse(lines, kw, vw, second) :
        lines \in SeqsUpTo(LineKinds, MaxLines),
        kw \in SeqsUpTo(KeyWords, MaxWords),
        vw \in SeqsUpTo(ValueWords, MaxWords),
        second \in SecondFields}
    \cup {DanglingResponse(lines) : lines \in SeqsUpTo(LineKinds, MaxLines)}

ClientErrors ==
    { "An error occurred (UnsupportedDocumentException) when calling the AnalyzeDocument operation: Request has unsupported document format",
      "An error occurred (AccessDeniedException) when calling the AnalyzeDocument operation: denied" }

OtherErrors == {"Could not connect to the endpoint URL"}

TextractOutcomes ==
    {[kind |-> "response", blocks |-> b, msg |-> ""] : b \in Responses}
    \cup {[kind |-> "client_error", blocks |-> <<>>, msg |-> m] : m \in ClientErrors}
    \cup {[kind |-> "exception", blocks |-> <<>>, msg |-> m] : m \in OtherErrors}

LlmOutputs ==
    { <<"{\"name\": \"John\"}">>,
      <<Fence \o "json\n", "{\"name\": \"John\"}", "\n" \o Fence>>,
      <<"{\"error\": \"no data\"}">>,
      <<"not json">> }

LlmOutcomes ==
    {[kind |-> "output", output |-> o, msg |-> ""] : o \in LlmOutputs}
    \cup {[kind |-> "raise", output |-> <<>>, msg |-> "ReplicateError: timeout"]}

\* str() of the exceptions a database attempt can raise.
DbErrors == {"connection is closed", "could not serialize access"}


(***************************************************************************)
(* process_pdf_background: one run for the uploaded document.              *)
(***************************************************************************)
VARIABLES
    pc,               \* where the run is: "analyze", "structure",
                      \* "soft_write", "success_write", "hard_write", "done"
    ocr_data,         \* the ocr_data column of the document row
    textract,         \* what the Textract client did in this run (None before)
    ocr_result,       \* the local ocr_result (None before it is assigned)
    structured_data,  \* the local structured_data (None before it is assigned)
    retry_count,      \* the local retry_count of the running retry loop
    success,          \* the local success of the running retry loop
    exc,              \* str(e) of the exception the outer handler caught
    llm_calls,        \* the texts process_ocr_text was called with, in order
    writes            \* the database attempts of the run, in order

\* The variables of the pipeline run.
pipeline_vars ==
    <<pc, ocr_data, textract, ocr_result, structured_data, retry_count,
      success, exc, llm_calls, writes>>

(***************************************************************************)
(* The upload request that creates the document (upload_pdf), the          *)
(* database sessions, and the OCR-result endpoint (get_pdf_ocr).           *)
(***************************************************************************)
VARIABLES
    upc,                 \* where upload_pdf is: "idle" (no request yet),
                         \* "insert", "cleanup", "responded"
    file,                \* the file of the upload request (None before)
    s3_objects,          \* the keys of the objects in the bucket
    s3_key,              \* the local s3_key of upload_pdf (None: not in locals())
    documents,           \* the ids of the rows of pdf_documents
    upload_retry_count,  \* the local retry_count of upload_pdf
    upload_attempts,     \* what failed in each attempt of the insert loop so far
    upload_exc,          \* str(e) of the exception upload_pdf caught
    tasks,               \* the background tasks added, in order
    upload_response,     \* the response of upload_pdf (None before)
    sessions,            \* the database sessions opened, in order
    ocr_response,        \* the response of get_pdf_ocr being delivered
    dpc,                 \* where delete_pdf is: "idle", "commit"
    api_response         \* the response being delivered to a request of a
                         \* named user: [endpoint, user, response]

upload_vars ==
    <<upc, file, s3_objects, s3_key, documents, upload_retry_count,
      upload_attempts,
      upload_exc, tasks, upload_response>>

api_vars == <<dpc, api_response>>

vars == <<pipeline_vars, upload_vars, sessions, ocr_response, api_vars>>

\* One database attempt: the session's update of ocr_data to `values', and
\* whether it committed (error is None) or raised (error is Some(str(e))).
Attempt(write, values, error) ==
    [write |-> write, values |-> values, error |-> error]

Init ==
    /\ pc = "analyze"
    /\ ocr_data = None
    /\ textract = None
    /\ ocr_result = None
    /\ structured_data = None
    /\ retry_count = 0
    /\ success = FALSE
    /\ exc = None
    /\ llm_calls = <<>>
    /\ writes = <<>>
    /\ upc = "idle"
    /\ file = None
    /\ s3_objects = {}
    /\ s3_key = None
    /\ documents = {}
    /\ upload_retry_count = 0
    /\ upload_attempts = <<>>
    /\ upload_exc = None
    /\ tasks = <<>>
    /\ upload_response = None
    /\ sessions = <<>>
    /\ ocr_response = None
    /\ dpc = "idle"
    /\ api_response = None

\* Mutant of HasError: the check of the analysis result is missing.
HasError_Never(result) == FALSE

\* if ocr_result.structured_data and "error" in ocr_result.structured_data
HasError(result) ==
    /\ result.structured_data # None
    /\ result.structured_data[1] # EmptyDict
    /\ "error" \in DOMAIN result.structured_data[1]

\* ocr_result = textract_service.analyze_document(...) and the check of
\* its result.
Analyze(outcome) ==
    /\ pc = "analyze"
    /\ textract' = Some(outcome)
    /\ LET r == analyze_document(outcome)
       IN  IF r.raised
           THEN /\ exc' = Some(r.value)
                /\ pc' = "hard_write"
                /\ UNCHANGED <<ocr_result, retry_count, success>>
           ELSE /\ ocr_result' = Some(r.value)
                /\ retry_count' = 0
                /\ success' = FALSE
                /\ pc' = IF HasError(r.value) THEN "soft_write" ELSE "structure"
                /\ exc' = exc
    /\ UNCHANGED <<ocr_data, structured_data, llm_calls, writes>>

\* structured_data = langchain_processor.process_ocr_text(ocr_result.text)
Structure(llm) ==
    /\ pc = "structure"
    /\ llm_calls' = Append(llm_calls, ocr_result[1].text)
    /\ LET r == process_ocr_text(ocr_result[1].text, llm)
       IN  IF r.raised
           THEN /\ exc' = Some(r.value)
                /\ pc' = "hard_write"
                /\ UNCHANGED <<structured_data, retry_count, success>>
           ELSE /\ structured_data' = Some(r.value)
                /\ retry_count' = 0
                /\ success' = FALSE
                /\ pc' = "success_write"
                /\ exc' = exc
    /\ UNCHANGED <<ocr_data, textract, ocr_result, writes>>

\* box.dict()
BoxDict(box) ==
    [x |-> box.x, y |-> box.y, width |-> box.width, height |-> box.height,
     page |-> box.page, text |-> box.text, confidence |-> box.confidence]

\* The values of the soft-error update: ocr_data=ocr_result.structured_data
SoftValues == ocr_result[1].structured_data[1]

\* Mutant of SuccessValues: the form data of the OCR result is stored in
\* place of the structuring step's result.
SuccessValues_FormData ==
    [text |-> ocr_result[1].text,
     structured_data |-> ocr_result[1].structured_data[1],
     bounding_boxes |->
        [i \in DOMAIN ocr_result[1].bounding_boxes |->
            BoxDict(ocr_result[1].bounding_boxes[i])]]

\* The values of the success update.
SuccessValues ==
    [text |-> ocr_result[1].text,
     structured_data |-> structured_data[1],
     bounding_boxes |->
        [i \in DOMAIN ocr_result[1].bounding_boxes |->
            BoxDict(ocr_result[1].bounding_boxes[i])]]

\* Mutant of HardValues: the error payload keeps the text analysed so far.
HardValues_Partial ==
    [error |-> exc[1],
     text |-> IF ocr_result = None THEN "" ELSE ocr_result[1].text]

\* The values of the hard-error update: ocr_data={"error": str(e)}
HardValues == [error |-> exc[1]]

\* Mutant of UpdateOcrData: the values are stored whether the row exists
\* or not.
UpdateOcrData_Always(docs, old, values) == Some(values)

\* update(PDFDocument).where(PDFDocument.id == pdf_id).values(ocr_data=...):
\* the column of the row of that id; a statement that matches no row
\* changes nothing and adds no row.
UpdateOcrData(docs, old, values) ==
    IF pdf_id \in docs THEN Some(values) ELSE old

\* Mutant of CommitOk: success is not set, the loop goes on after a commit.
CommitOk_Continue(at, values) ==
    /\ pc = at
    /\ retry_count < max_retries /\ ~success
    /\ ocr_data' = Some(values)
    /\ retry_count' = retry_count + 1
    /\ writes' = Append(writes, Attempt(at, values, None))
    /\ pc' = IF retry_count' >= max_retries THEN "done" ELSE at
    /\ UNCHANGED <<textract, ocr_result, structured_data, success, exc,
                   llm_calls>>

\* One pass of a retry loop whose session commits.
CommitOk(at, values) ==
    /\ pc = at
    /\ retry_count < max_retries /\ ~success
    /\ ocr_data' = UpdateOcrData(documents, ocr_data, values)
    /\ success' = TRUE
    /\ writes' = Append(writes, Attempt(at, values, None))
    /\ pc' = "done"
    /\ UNCHANGED <<textract, ocr_result, structured_data, retry_count, exc,
                   llm_calls>>

\* Mutant of CommitFail: the last failure is not re-raised.
CommitFail_Swallow(at, values, db_error) ==
    /\ pc = at
    /\ retry_count < max_retries /\ ~success
    /\ retry_count' = retry_count + 1
    /\ writes' = Append(writes, Attempt(at, values, Some(db_error)))
    /\ pc' = IF retry_count' >= max_retries THEN "done" ELSE pc
    /\ UNCHANGED <<ocr_data, textract, ocr_result, structured_data, success,
                   exc, llm_calls>>

\* Mutant of CommitFail: the update of a failed attempt stays in the row.
CommitFail_Dirty(at, values, db_error) ==
    /\ pc = at
    /\ retry_count < max_retries /\ ~success
    /\ retry_count' = retry_count + 1
    /\ ocr_data' = Some(values)
    /\ writes' = Append(writes, Attempt(at, values, Some(db_error)))
    /\ IF retry_count' >= max_retries
       THEN exc' = Some(db_error) /\ pc' = "hard_write"
       ELSE exc' = exc /\ pc' = pc
    /\ UNCHANGED <<textract, ocr_result, structured_data, success, llm_calls>>

\* One pass of a retry loop whose session raises db_error: the update is
\* not committed, and the last failure is re-raised to the outer handler.
CommitFail(at, values, db_error) ==
    /\ pc = at
    /\ retry_count < max_retries /\ ~success
    /\ retry_count' = retry_count + 1
    /\ writes' = Append(writes, Attempt(at, values, Some(db_error)))
    /\ IF retry_count' >= max_retries
       THEN exc' = Some(db_error) /\ pc' = "hard_write"
       ELSE exc' = exc /\ pc' = pc
    /\ UNCHANGED <<ocr_data, textract, ocr_result, structured_data, success,
                   llm_calls>>

SoftCommitOk == CommitOk("soft_write", SoftValues)
SoftCommitFail(db_error) == CommitFail("soft_write", SoftValues, db_error)
SuccessCommitOk == CommitOk("success_write", SuccessValues)
SuccessCommitFail(db_error) == CommitFail("success_write", SuccessValues, db_error)

\* The outer handler's update commits.
HardCommitOk ==
    /\ pc = "hard_write"
    /\ ocr_data' = UpdateOcrData(documents, ocr_data, HardValues)
    /\ writes' = Append(writes, Attempt("hard_write", HardValues, None))
    /\ pc' = "done"
    /\ UNCHANGED <<textract, ocr_result, structured_data, retry_count, success,
                   exc, llm_calls>>

\* Mutant of HardCommitFail: the handler retries like the other writes.
HardCommitFail_Retry(update_error) ==
    /\ pc = "hard_write"
    /\ writes' = Append(writes, Attempt("hard_write", [error |-> exc[1]],
                                        Some(update_error)))
    /\ pc' = IF Cardinality({i \in DOMAIN writes' :
                                writes'[i].write = "hard_write"}) >= max_retries
             THEN "done" ELSE "hard_write"
    /\ UNCHANGED <<ocr_data, textract, ocr_result, structured_data, retry_count,
                   success, exc, llm_calls>>

\* Mutant of HardCommitFail: the update of the failed attempt stays in the row.
HardCommitFail_Dirty(update_error) ==
    /\ pc = "hard_write"
    /\ ocr_data' = Some([error |-> exc[1]])
    /\ writes' = Append(writes, Attempt("hard_write", [error |-> exc[1]],
                                        Some(update_error)))
    /\ pc' = "done"
    /\ UNCHANGED <<textract, ocr_result, structured_data, retry_count, success,
                   exc, llm_calls>>

\* The outer handler's update raises update_error, which is logged.
HardCommitFail(update_error) ==
    /\ pc = "hard_write"
    /\ writes' = Append(writes, Attempt("hard_write", HardValues, Some(update_error)))
    /\ pc' = "done"
    /\ UNCHANGED <<ocr_data, textract, ocr_result, structured_data, retry_count,
                   success, exc, llm_calls>>

(***************************************************************************)
(* upload_pdf: the request that stores the file, inserts the document row  *)
(* and adds the background task.                                           *)
(***************************************************************************)
HTTPException(status_code, detail) == [status_code |-> status_code, detail |-> detail]

\* str(e) of an HTTPException: the status code, a colon, the detail.
HTTPExceptionStr(e) ==
    (CASE e.status_code = 400 -> "400"
       [] e.status_code = 404 -> "404"
       [] e.status_code = 500 -> "500") \o ": " \o e.detail

\* The key S3Service.upload_file generates for the object of the document.
GeneratedKey == "pdfs/uuid4.pdf"

\* The files a client sends.
ContentTypes == {"application/pdf", "image/png"}
Filenames == {"a.pdf", ""}
Contents == {"%PDF-1.4", ""}
UploadFiles ==
    [content_type : ContentTypes, filename : Filenames, content : Contents]

\* What put_object does: it stores the object or raises a ClientError.
PutOutcomes == {"stored", "AccessDenied"}

\* Mutant of upload_file: the content of the file is not looked at.
upload_file_AnyContent(f, put) ==
    IF f.filename = "" THEN Raise(HTTPException(400, "File has no filename"))
    ELSE IF put # "stored"
         THEN Raise(HTTPException(500, "S3 upload error: " \o put))
         ELSE Return(GeneratedKey)

\* S3Service.upload_file: the key of the stored object, or an HTTPException.
upload_file(f, put) ==
    IF f.filename = "" THEN Raise(HTTPException(400, "File has no filename"))
    ELSE IF f.content = "" THEN Raise(HTTPException(400, "File content is empty"))
    ELSE IF put # "stored"
         THEN Raise(HTTPException(500, "S3 upload error: " \o put))
         ELSE Return(GeneratedKey)

\* The session get_db opens for a request, and its state after the request.
RequestSession == [by |-> "upload_pdf", attempts |-> {}, closed |-> FALSE]
CloseAll(ss) == [j \in DOMAIN ss |-> [ss[j] EXCEPT !.closed = TRUE]]

\* upload_pdf ends: its response is produced, its locals are gone and
\* get_db closes the session of the request.
Respond(response) ==
    /\ upload_response' = Some(response)
    /\ upc' = "responded"
    /\ s3_key' = None
    /\ upload_retry_count' = 0
    /\ upload_attempts' = <<>>
    /\ sessions' = CloseAll(IF sessions = <<>> THEN <<RequestSession>> ELSE sessions)

FailedUpload(message) ==
    HTTPException(500, "Failed to upload PDF: " \o message)

PDFDocumentResponse(f, key) ==
    [status_code |-> 200,
     body |-> [id |-> pdf_id, filename |-> f.filename, file_url |-> key,
               ocr_data |-> None]]

\* The content-type check fails: 400 before anything is stored.
UploadReject(f) ==
    /\ upc = "idle"
    /\ f.content_type # "application/pdf"
    /\ file' = Some(f)
    /\ Respond(HTTPException(400, "Only PDF files are allowed"))
    /\ UNCHANGED <<s3_objects, documents, upload_exc, tasks>>

\* The storage upload fails: s3_key is not bound, so nothing is cleaned up.
UploadS3Fail(f, put) ==
    /\ upc = "idle"
    /\ f.content_type = "application/pdf"
    /\ upload_file(f, put).raised
    /\ file' = Some(f)
    /\ upload_exc' = Some(HTTPExceptionStr(upload_file(f, put).value))
    /\ Respond(FailedUpload(HTTPExceptionStr(upload_file(f, put).value)))
    /\ UNCHANGED <<s3_objects, documents, tasks>>

\* The storage upload succeeds: the object exists, s3_key is bound and the
\* insert loop starts.
UploadS3Ok(f, put) ==
    /\ upc = "idle"
    /\ f.content_type = "application/pdf"
    /\ ~upload_file(f, put).raised
    /\ file' = Some(f)
    /\ s3_objects' = s3_objects \cup {upload_file(f, put).value}
    /\ s3_key' = Some(upload_file(f, put).value)
    /\ upload_retry_count' = 0
    /\ upload_attempts' = <<>>
    /\ upc' = "insert"
    /\ sessions' = <<RequestSession>>
    /\ UNCHANGED <<documents, upload_exc, tasks, upload_response>>

\* Mutant of add_task: the task is added twice.
add_task_Twice(ts, id, key) ==
    ts \o <<[pdf_id |-> id, s3_key |-> key], [pdf_id |-> id, s3_key |-> key]>>

\* background_tasks.add_task(process_pdf_background, pdf_document.id, s3_key, None)
add_task(ts, id, key) == Append(ts, [pdf_id |-> id, s3_key |-> key])

\* db.commit() raises in the insert loop: rollback, and after max_retries
\* failures the exception leaves the loop.
InsertCommitFail(e) ==
    /\ upc = "insert"
    /\ upload_retry_count < max_retries
    /\ upload_retry_count' = upload_retry_count + 1
    /\ upload_attempts' = Append(upload_attempts, "commit")
    /\ IF upload_retry_count + 1 >= max_retries
       THEN upc' = "cleanup" /\ upload_exc' = Some(e)
       ELSE UNCHANGED <<upc, upload_exc>>
    /\ UNCHANGED <<file, s3_objects, s3_key, documents, tasks, upload_response,
                   sessions>>

\* db.commit() succeeds and db.refresh() raises: the row is there, the
\* attempt counts as failed.
InsertRefreshFail(e) ==
    /\ upc = "insert"
    /\ upload_retry_count < max_retries
    /\ documents' = documents \cup {pdf_id}
    /\ upload_retry_count' = upload_retry_count + 1
    /\ upload_attempts' = Append(upload_attempts, "refresh")
    /\ IF upload_retry_count + 1 >= max_retries
       THEN upc' = "cleanup" /\ upload_exc' = Some(e)
       ELSE UNCHANGED <<upc, upload_exc>>
    /\ UNCHANGED <<file, s3_objects, s3_key, tasks, upload_response, sessions>>

\* The insert succeeds: the task is added and the document is returned.
InsertOk ==
    /\ upc = "insert"
    /\ upload_retry_count < max_retries
    /\ documents' = documents \cup {pdf_id}
    /\ tasks' = add_task(tasks, pdf_id, s3_key[1])
    /\ Respond(PDFDocumentResponse(file[1], s3_key[1]))
    /\ UNCHANGED <<file, s3_objects, upload_exc>>

\* Mutant of CleanupOk: the object is left in the bucket.
CleanupOk_KeepObject ==
    /\ upc = "cleanup"
    /\ Respond(FailedUpload(upload_exc[1]))
    /\ UNCHANGED <<file, s3_objects, documents, upload_exc, tasks>>

\* The handler of upload_pdf after the insert failed: s3_key is bound, so
\* the object is deleted (delete_file returns True) and the answer is 500.
CleanupOk ==
    /\ upc = "cleanup"
    /\ s3_objects' = s3_objects \ {s3_key[1]}
    /\ Respond(FailedUpload(upload_exc[1]))
    /\ UNCHANGED <<file, documents, upload_exc, tasks>>

\* delete_file returns False: the object stays, the answer is 500.
CleanupFail ==
    /\ upc = "cleanup"
    /\ Respond(FailedUpload(upload_exc[1]))
    /\ UNCHANGED <<file, s3_objects, documents, upload_exc, tasks>>

\* Starlette runs the background tasks of a request after its response.
TaskReady == upc = "responded" /\ tasks # <<>>

\* Mutant of WithSession: the attempt reuses the session opened last.
WithSession_Shared(ss, attempt) ==
    [ss EXCEPT ![Len(ss)].attempts = @ \cup {attempt}]

\* async with async_session_factory() as session: a session opened for one
\* commit attempt of the pipeline and closed when the block is left.
WithSession(ss, attempt) ==
    Append(ss, [by |-> "process_pdf_background", attempts |-> {attempt},
                closed |-> TRUE])

\* What a step of the pipeline leaves alone of the request, and the
\* session of a commit attempt.
PipelineStep ==
    /\ TaskReady
    /\ ocr_response' = None
    /\ api_response' = None
    /\ UNCHANGED <<upload_vars, sessions, dpc>>

PipelineCommit ==
    /\ TaskReady
    /\ ocr_response' = None
    /\ api_response' = None
    /\ sessions' = WithSession(sessions, Len(writes) + 1)
    /\ UNCHANGED <<upload_vars, dpc>>

UploadStep ==
    /\ ocr_response' = None
    /\ api_response' = None
    /\ UNCHANGED <<pipeline_vars, dpc>>

(***************************************************************************)
(* get_pdf_ocr: the OCR-result endpoint, asked for the document by its     *)
(* owner.                                                                  *)
(***************************************************************************)
\* dict.get(k, default)
DictGet(d, k, default) == IF k \in DOMAIN d THEN d[k] ELSE default

\* The names pdfs.py binds from app.schemas.pdf (its import at line 15).
SchemaImports == {"PDFDocumentResponse", "OCRResult"}

\* BoundingBox(**box) for every box of the payload: pdfs.py evaluates the
\* name BoundingBox for the first box; a name the module does not bind
\* raises NameError.
BoundingBoxes(boxes) ==
    IF boxes = <<>> THEN Return(<<>>)
    ELSE IF "BoundingBox" \notin SchemaImports
         THEN Raise("name 'BoundingBox' is not defined")
         ELSE Return([i \in DOMAIN boxes |->
                        BoundingBox(boxes[i].x, boxes[i].y, boxes[i].width,
                                    boxes[i].height, boxes[i].page,
                                    boxes[i].text, boxes[i].confidence)])

\* get_pdf_ocr on the rows docs and the ocr_data column data of the row.
get_pdf_ocr(docs, data) ==
    IF pdf_id \notin docs THEN HTTPException(404, "PDF not found")
    ELSE IF data = None \/ DOMAIN data[1] = {}
    THEN HTTPException(404, "OCR results not available yet")
    ELSE LET bounding_boxes ==
                 BoundingBoxes(DictGet(data[1], "bounding_boxes", <<>>))
         IN  IF bounding_boxes.raised
             THEN HTTPException(500, bounding_boxes.value)
             ELSE [status_code |-> 200,
                   body |-> OCRResult(DictGet(data[1], "text", ""),
                                      bounding_boxes.value,
                                      Some(DictGet(data[1], "structured_data",
                                                   EmptyDict)))]

GetPdfOcr ==
    /\ ocr_response' = Some(get_pdf_ocr(documents, ocr_data))
    /\ api_response' = None
    /\ UNCHANGED <<pipeline_vars, upload_vars, sessions, dpc>>

Next ==
    \/ \E f \in UploadFiles : UploadReject(f) /\ UploadStep
    \/ \E f \in UploadFiles, put \in PutOutcomes : UploadS3Fail(f, put) /\ UploadStep
    \/ \E f \in UploadFiles, put \in PutOutcomes : UploadS3Ok(f, put) /\ UploadStep
    \/ \E e \in DbErrors : InsertCommitFail(e) /\ UploadStep
    \/ \E e \in DbErrors : InsertRefreshFail(e) /\ UploadStep
    \/ InsertOk /\ UploadStep
    \/ CleanupOk /\ UploadStep
    \/ CleanupFail /\ UploadStep
    \/ \E outcome \in TextractOutcomes : Analyze(outcome) /\ PipelineStep
    \/ \E llm \in LlmOutcomes : Structure(llm) /\ PipelineStep
    \/ SoftCommitOk /\ PipelineCommit
    \/ \E db_error \in DbErrors : SoftCommitFail(db_error) /\ PipelineCommit
    \/ SuccessCommitOk /\ PipelineCommit
    \/ \E db_error \in DbErrors : SuccessCommitFail(db_error) /\ PipelineCommit
    \/ HardCommitOk /\ PipelineCommit
    \/ \E update_error \in DbErrors : HardCommitFail(update_error) /\ PipelineCommit
    \/ GetPdfOcr

Spec == Init /\ [][Next]_vars

(***************************************************************************)
(* The endpoints that read and delete a document: get_pdfs, get_pdf,       *)
(* get_pdf_url, get_pdf_ocr and delete_pdf, asked by any user once the     *)
(* upload has been answered.                                               *)
(***************************************************************************)
\* The user who uploads (current_user of upload_pdf) and the users who ask.
Uploader == "alice"
Users == {"alice", "bob"}

\* What db.execute(select ...) does: it returns the rows or raises.
SelectOutcomes == {"rows", "connection is closed"}

\* What s3_client.generate_presigned_url does: it returns a URL or raises a
\* ClientError.
SignOutcomes == {"signed", "AccessDenied"}

\* The row of the document, as the endpoints read it.
Row ==
    [id |-> pdf_id, user_id |-> Uploader, filename |-> file[1].filename,
     file_url |-> GeneratedKey, ocr_data |-> ocr_data]

\* Mutant of OwnedBy: the rows are not filtered by user.
OwnedBy_Anyone(user) == documents

\* select(PDFDocument).where(..., PDFDocument.user_id == current_user.id):
\* the ids of the rows of the user.
OwnedBy(user) == {id \in documents : Row.user_id = user}

\* get_pdfs
get_pdfs(user, db) ==
    IF db # "rows" THEN HTTPException(500, db)
    ELSE [status_code |-> 200,
          body |-> IF pdf_id \in OwnedBy(user) THEN <<Row>> ELSE <<>>]

\* get_pdf
get_pdf(user, db) ==
    IF db # "rows" THEN HTTPException(500, db)
    ELSE IF pdf_id \notin OwnedBy(user) THEN HTTPException(404, "PDF not found")
    ELSE [status_code |-> 200, body |-> Row]

\* S3Service.generate_presigned_url
generate_presigned_url(key, sign) ==
    IF sign = "signed" THEN Return("https://bucket.s3.amazonaws.com/" \o key \o "?X-Amz-Signature=sig")
    ELSE Raise(HTTPException(500, "Failed to generate file access URL"))

\* get_pdf_url
get_pdf_url(user, db, sign) ==
    IF db # "rows" THEN HTTPException(500, db)
    ELSE IF pdf_id \notin OwnedBy(user) THEN HTTPException(404, "PDF not found")
    ELSE LET url == generate_presigned_url(Row.file_url, sign)
         IN  IF url.raised THEN url.value
             ELSE [status_code |-> 200, body |-> [url |-> url.value]]

ApiResponse(endpoint, user, response) ==
    [endpoint |-> endpoint, user |-> user, response |-> response]

\* A request that reads: nothing changes but the response delivered.
ApiRead(endpoint, user, response) ==
    /\ upc = "responded"
    /\ api_response' = Some(ApiResponse(endpoint, user, response))
    /\ ocr_response' = None
    /\ UNCHANGED <<pipeline_vars, upload_vars, sessions, dpc>>

GetPdfs(user, db) == ApiRead("get_pdfs", user, get_pdfs(user, db))
GetPdf(user, db) == ApiRead("get_pdf", user, get_pdf(user, db))
GetPdfUrl(user, db, sign) == ApiRead("get_pdf_url", user, get_pdf_url(user, db, sign))
GetPdfOcrBy(user) ==
    ApiRead("get_pdf_ocr", user, get_pdf_ocr(OwnedBy(user), ocr_data))

\* What is left of the state by a step of delete_pdf apart from the row, the
\* bucket and the responses.
DeleteFrame ==
    UNCHANGED <<pc, textract, ocr_result, structured_data, retry_count, success,
                exc, llm_calls, writes, upc, file, s3_key, upload_retry_count,
                upload_attempts, upload_exc, tasks, upload_response, sessions>>

\* delete_pdf finds no row of the user, or the select raises: the answer is
\* given and nothing is touched.
DeleteRefused(user, db) ==
    /\ upc = "responded"
    /\ db # "rows" \/ pdf_id \notin OwnedBy(user)
    /\ api_response' =
          Some(ApiResponse("delete_pdf", user,
                   IF db # "rows"
                   THEN HTTPException(500, "Failed to delete PDF: " \o db)
                   ELSE HTTPException(404, "PDF not found")))
    /\ ocr_response' = None
    /\ UNCHANGED <<ocr_data, s3_objects, documents, dpc>>
    /\ DeleteFrame

\* delete_pdf finds the row and calls delete_file(pdf.file_url): the object
\* is deleted (True) or stays (False); the handler goes on either way.
DeleteFile(user, deleted) ==
    /\ upc = "responded"
    /\ dpc = "idle"
    /\ pdf_id \in OwnedBy(user)
    /\ s3_objects' = IF deleted THEN s3_objects \ {Row.file_url} ELSE s3_objects
    /\ dpc' = "commit"
    /\ api_response' = None
    /\ ocr_response' = None
    /\ UNCHANGED <<ocr_data, documents>>
    /\ DeleteFrame

\* Mutant of delete_row: the row stays.
delete_row_Keep(docs, id) == docs

\* db.delete(pdf); db.commit()
delete_row(docs, id) == docs \ {id}

\* The delete commits: the row and its columns are gone.
DeleteCommitOk ==
    /\ dpc = "commit"
    /\ documents' = delete_row(documents, pdf_id)
    /\ ocr_data' = IF pdf_id \in documents' THEN ocr_data ELSE None
    /\ dpc' = "idle"
    /\ api_response' =
          Some(ApiResponse("delete_pdf", Uploader,
                   [status_code |-> 200,
                    body |-> [message |-> "PDF deleted successfully"]]))
    /\ ocr_response' = None
    /\ UNCHANGED s3_objects
    /\ DeleteFrame

\* The commit of the delete raises: the row stays, the answer is 500.
DeleteCommitFail(e) ==
    /\ dpc = "commit"
    /\ dpc' = "idle"
    /\ api_response' =
          Some(ApiResponse("delete_pdf", Uploader,
                   HTTPException(500, "Failed to delete PDF: " \o e)))
    /\ ocr_response' = None
    /\ UNCHANGED <<ocr_data, s3_objects, documents>>
    /\ DeleteFrame

\* The outcomes of the Textract client and of the model for the runs that
\* are interleaved with the endpoints.
ApiTextractOutcomes ==
    {[kind |-> "response", blocks |-> b, msg |-> ""] :
        b \in {FormResponse(lines, <<"Name">>, <<"John">>, <<>>) :
                  lines \in SeqsUpTo(LineKinds, 1)}}
    \cup {[kind |-> "client_error", blocks |-> <<>>, msg |-> m] : m \in ClientErrors}

ApiLlmOutcomes ==
    {llm \in LlmOutcomes : llm.kind = "raise" \/ Len(llm.output) = 1}

NextApi ==
    \/ \E f \in UploadFiles : UploadReject(f) /\ UploadStep
    \/ \E f \in UploadFiles, put \in PutOutcomes : UploadS3Fail(f, put) /\ UploadStep
    \/ \E f \in UploadFiles, put \in PutOutcomes : UploadS3Ok(f, put) /\ UploadStep
    \/ \E e \in DbErrors : InsertCommitFail(e) /\ UploadStep
    \/ \E e \in DbErrors : InsertRefreshFail(e) /\ UploadStep
    \/ InsertOk /\ UploadStep
    \/ CleanupOk /\ UploadStep
    \/ CleanupFail /\ UploadStep
    \/ \E outcome \in ApiTextractOutcomes : Analyze(outcome) /\ PipelineStep
    \/ \E llm \in ApiLlmOutcomes : Structure(llm) /\ PipelineStep
    \/ SoftCommitOk /\ PipelineCommit
    \/ \E db_error \in DbErrors : SoftCommitFail(db_error) /\ PipelineCommit
    \/ SuccessCommitOk /\ PipelineCommit
    \/ \E db_error \in DbErrors : SuccessCommitFail(db_error) /\ PipelineCommit
    \/ HardCommitOk /\ PipelineCommit
    \/ \E update_error \in DbErrors : HardCommitFail(update_error) /\ PipelineCommit
    \/ \E user \in Users, db \in SelectOutcomes : GetPdfs(user, db)
    \/ \E user \in Users, db \in SelectOutcomes : GetPdf(user, db)
    \/ \E user \in Users, db \in SelectOutcomes, sign \in SignOutcomes :
          GetPdfUrl(user, db, sign)
    \/ \E user \in Users : GetPdfOcrBy(user)
    \/ \E user \in Users, db \in SelectOutcomes : DeleteRefused(user, db)
    \/ \E user \in Users, deleted \in BOOLEAN : DeleteFile(user, deleted)
    \/ DeleteCommitOk
    \/ \E e \in DbErrors : DeleteCommitFail(e)

SpecApi == Init /\ [][NextApi]_vars


(***************************************************************************)
(* Responses for the form-pair reconstruction and the line extraction on   *)
(* their own: children that are WORD blocks, other blocks or absent from   *)
(* the response, KEY blocks with several VALUE targets, several KEY blocks *)
(* and pages of lines between other blocks.                                *)
(***************************************************************************)
MaxTargets == 2
MaxPageLines == 2

\* A child named by a CHILD relationship: the block it names, or "MISSING"
\* when the response holds no block of that id.
Child(type, text) == [BlockType |-> type, Text |-> text]
KeyChildren ==
    { Child("WORD", "Name"), Child("WORD", ":"), Child("WORD", ""),
      Child("SELECTION_ELEMENT", "x"), Child("MISSING", "") }
ValueChildren ==
    { Child("WORD", "John"), Child("WORD", "Smith"),
      Child("SELECTION_ELEMENT", "x"), Child("MISSING", "") }

ChildIds(prefix, kids) == [i \in DOMAIN kids |-> prefix \o Digit(i)]

RECURSIVE ChildBlocks(_, _)
ChildBlocks(prefix, kids) ==
    IF kids = <<>> THEN <<>>
    ELSE LET init == ChildBlocks(prefix, SubSeq(kids, 1, Len(kids) - 1))
             kid == kids[Len(kids)]
         IN  IF kid.BlockType = "MISSING" THEN init
             ELSE Append(init, Block(prefix \o Digit(Len(kids)), kid.BlockType,
                                     kid.Text, <<>>, <<>>, None, None))

\* A VALUE target: a VALUE block with CHILD words, a VALUE block without
\* Relationships, or an id with no block in the response.
Target(kind, kids) == [kind |-> kind, kids |-> kids]
ValueBlocks(prefix, targets) ==
    [i \in DOMAIN targets |->
        IF targets[i].kind = "missing" THEN <<>>
        ELSE << Block(prefix \o Digit(i), "KEY_VALUE_SET", "", <<"VALUE">>,
                      IF targets[i].kind = "bare" THEN <<>>
                      ELSE <<Rel("CHILD",
                                 ChildIds(prefix \o Digit(i) \o "c", targets[i].kids))>>,
                      None, None) >>
             \o ChildBlocks(prefix \o Digit(i) \o "c", targets[i].kids)]

RECURSIVE Flatten(_)
Flatten(seqs) == IF seqs = <<>> THEN <<>> ELSE Head(seqs) \o Flatten(Tail(seqs))

\* How the ids of the targets are spread over VALUE relationships: all in
\* one relationship, or one relationship for each.
ValueRels(layout, ids) ==
    IF ids = <<>> THEN <<>>
    ELSE IF layout = "one" THEN <<Rel("VALUE", ids)>>
    ELSE [i \in DOMAIN ids |-> Rel("VALUE", <<ids[i]>>)]

\* The blocks of a form field n: its KEY block, then the blocks of its
\* targets, then the children of the key.
Field(n, kids, layout, targets) ==
    << Block("key" \o n, "KEY_VALUE_SET", "", <<"KEY">>,
             <<Rel("CHILD", ChildIds("k" \o n, kids))>>
             \o ValueRels(layout, ChildIds("v" \o n, targets)),
             None, None) >>
    \o Flatten(ValueBlocks("v" \o n, targets))
    \o ChildBlocks("k" \o n, kids)

\* One field: every key and every single value block within the bounds.
KeyTextResponses ==
    {Field("A", kids, "one", <<Target("words", vkids)>>) :
        kids \in SeqsUpTo(KeyChildren, MaxWords),
        vkids \in SeqsUpTo(ValueChildren, MaxWords)}

\* One field with up to MaxTargets VALUE targets, in either layout.
TargetKinds ==
    { Target("words", <<Child("WORD", "John")>>),
      Target("words", <<Child("WORD", "Smith")>>),
      Target("words", <<Child("WORD", "Mary"), Child("WORD", "Ann")>>),
      Target("bare", <<>>),
      Target("missing", <<>>) }

TargetResponses ==
    {Field("A", <<Child("WORD", "Name")>>, layout, targets) :
        layout \in {"one", "each"},
        targets \in SeqsUpTo(TargetKinds, MaxTargets)}

\* Two fields, with the same key text or not.
TwoKeyResponses ==
    {Field("A", <<k1>>, "one", <<t1>>) \o Field("B", <<k2>>, "one", <<t2>>) :
        k1 \in {Child("WORD", "Name"), Child("WORD", "Date")},
        k2 \in {Child("WORD", "Name"), Child("WORD", "Date")},
        t1 \in TargetKinds, t2 \in TargetKinds}

\* Pages of lines: with or without geometry, text and confidence, alone or
\* with a WORD block after each line, before nothing, a field or a KEY
\* block with an unresolved child.
PageLineKinds ==
    LineKinds \cup {[text |-> "", geom |-> Some(BBox(1, 2, 3, 4)), conf |-> None]}

PageBlocks(lines, words) ==
    Flatten([i \in DOMAIN lines |->
                <<LineBlocks(lines)[i]>>
                \o IF words
                   THEN <<Block("w" \o Digit(i), "WORD", lines[i].text, <<>>, <<>>,
                                lines[i].geom, lines[i].conf)>>
                   ELSE <<>>])

PageResponses ==
    {PageBlocks(lines, words) \o fields :
        lines \in SeqsUpTo(PageLineKinds, MaxPageLines),
        words \in BOOLEAN,
        fields \in { <<>>,
                     Field("A", <<Child("WORD", "Name")>>, "one",
                           <<Target("words", <<Child("WORD", "John")>>)>>),
                     Field("A", <<Child("MISSING", "")>>, "one", <<>>) }}

ExtractResponses ==
    Responses \cup KeyTextResponses \cup TargetResponses \cup TwoKeyResponses
    \cup PageResponses

ExtractOutcomes ==
    {[kind |-> "response", blocks |-> b, msg |-> ""] : b \in ExtractResponses}

\* The state in which the task of an accepted upload starts, and the
\* analysis of a response in it.
InitExtract ==
    /\ pc = "analyze"
    /\ ocr_data = None
    /\ textract = None
    /\ ocr_result = None
    /\ structured_data = None
    /\ retry_count = 0
    /\ success = FALSE
    /\ exc = None
    /\ llm_calls = <<>>
    /\ writes = <<>>
    /\ upc = "responded"
    /\ file \in {Some(f) : f \in {g \in UploadFiles :
                    g.content_type = "application/pdf"
                    /\ ~upload_file(g, "stored").raised}}
    /\ s3_objects = {GeneratedKey}
    /\ s3_key = None
    /\ documents = {pdf_id}
    /\ upload_retry_count = 0
    /\ upload_attempts = <<>>
    /\ upload_exc = None
    /\ tasks = add_task(<<>>, pdf_id, GeneratedKey)
    /\ upload_response = Some(PDFDocumentResponse(file[1], GeneratedKey))
    /\ sessions = CloseAll(<<RequestSession>>)
    /\ ocr_response = None
    /\ dpc = "idle"
    /\ api_response = None

NextExtract ==
    \E outcome \in ExtractOutcomes : Analyze(outcome) /\ PipelineStep

SpecExtract == InitExtract /\ [][NextExtract]_vars


(***************************************************************************)
(* Properties of a run.                                                    *)
(***************************************************************************)
Done == pc = "done"

\* The attempts of one write, those that raised, and those that committed.
AttemptsOf(at) == {i \in DOMAIN writes : writes[i].write = at}
FailedOf(at) == {i \in AttemptsOf(at) : writes[i].error # None}
Committed == {i \in DOMAIN writes : writes[i].error = None}
Exhausted(at) == Cardinality(FailedOf(at)) = max_retries

\* analyze_document returned a result whose structured_data has an "error" key.
ReturnedError ==
    /\ ocr_result # None
    /\ ocr_result[1].structured_data # None
    /\ "error" \in DOMAIN ocr_result[1].structured_data[1]

\* The analysis call raised; the structuring call raised.
AnalysisRaised == textract # None /\ ocr_result = None
StructuringRaised == llm_calls # <<>> /\ structured_data = None

\* The success payload of the run, once structuring has returned.
SuccessPayload ==
    [text |-> ocr_result[1].text,
     structured_data |-> structured_data[1],
     bounding_boxes |-> ocr_result[1].bounding_boxes]

\* C1 (as stated): whenever analyze_document returns a result whose
\* structured_data contains an "error" key, the run persists exactly that
\* structured_data as the OCR payload and never invokes process_ocr_text.
C1_Original ==
    (Done /\ ReturnedError) =>
        /\ ocr_data = Some(ocr_result[1].structured_data[1])
        /\ llm_calls = <<>>

\* C1 (amended): whenever analyze_document returns a result whose
\* structured_data contains an "error" key, process_ocr_text is never invoked
\* in that run, every attempt of the soft-error write carries exactly that
\* structured_data, and it is the OCR payload as soon as one of the at most
\* 3 attempts commits.
C1_SoftErrorPersisted ==
    ReturnedError =>
        LET sd == ocr_result[1].structured_data[1]
        IN  /\ llm_calls = <<>>
            /\ structured_data = None
            /\ \A i \in AttemptsOf("soft_write") : writes[i].values = sd
            /\ (AttemptsOf("soft_write") \cap Committed # {}) => ocr_data = Some(sd)
            /\ (Done /\ ~Exhausted("soft_write")) => ocr_data = Some(sd)

C1_Witness ==
    /\ Done
    /\ ReturnedError
    /\ textract[1].kind = "client_error"
    /\ Len(writes) = 2
    /\ ocr_data = Some([error |-> UnsupportedMessage])

\* C2: if the analysis call or the structuring call raises, the only payload
\* the run can persist is {"error": <the exception's message>}: every write
\* attempted is the hard-error write of that single-key payload, and the row
\* holds nothing else.
C2_OnlyErrorPayload ==
    (AnalysisRaised \/ StructuringRaised) =>
        /\ exc # None
        /\ (AnalysisRaised /\ textract[1].kind # "response")
              => exc[1] = textract[1].msg
        /\ \A i \in DOMAIN writes :
              /\ writes[i].write = "hard_write"
              /\ writes[i].values = [error |-> exc[1]]
        /\ ocr_data \in {None, Some([error |-> exc[1]])}

C2_Witness ==
    /\ Done
    /\ AnalysisRaised
    /\ textract[1].kind = "client_error"
    /\ ocr_data = Some([error |-> textract[1].msg])

\* C3: if all 3 commit attempts of the success write fail, the last failure
\* is re-raised to the outer handler, which attempts the hard-error write of
\* {"error": <message of that failure>}; no success payload is persisted.
C3_SuccessWriteEscalates ==
    Exhausted("success_write") =>
        /\ AttemptsOf("success_write") = 1..max_retries
        /\ exc = writes[max_retries].error
        /\ pc \in {"hard_write", "done"}
        /\ Done =>
              /\ Len(writes) = max_retries + 1
              /\ writes[max_retries + 1].write = "hard_write"
              /\ writes[max_retries + 1].values
                    = [error |-> writes[max_retries].error[1]]
        /\ ocr_data \in {None, Some([error |-> writes[max_retries].error[1]])}

C3_Witness ==
    /\ Done
    /\ Exhausted("success_write")
    /\ writes[1].error # writes[max_retries].error
    /\ ocr_data = Some([error |-> writes[max_retries].error[1]])

\* C4 (as stated): the hard-error write is retried like the other writes, so
\* a run that ends in the outer handler without the error payload persisted
\* has seen 3 failed attempts of the hard-error write.
C4_Original ==
    (Done /\ exc # None /\ ocr_data # Some([error |-> exc[1]]))
        => Exhausted("hard_write")

\* C4 (amended): the hard-error write is attempted exactly once and never
\* retried: the error payload is persisted if that one attempt commits, and
\* if it fails the run ends with nothing persisted.
C4_HardWriteOnce ==
    /\ Cardinality(AttemptsOf("hard_write")) <= 1
    /\ (Done /\ exc # None) =>
          /\ AttemptsOf("hard_write") = {Len(writes)}
          /\ writes[Len(writes)].values = [error |-> exc[1]]
          /\ (writes[Len(writes)].error = None)
                => ocr_data = Some([error |-> exc[1]])
          /\ (writes[Len(writes)].error # None) => ocr_data = None

C4_Witness ==
    /\ Done
    /\ AnalysisRaised
    /\ Len(writes) = 1
    /\ writes[1].error # None
    /\ ocr_data = None

\* C5 (as stated): when every commit attempt of an error-recording write
\* fails (the soft-error write after 3 attempts, or the hard-error write),
\* no further write is attempted and the OCR payload stays null.
C5_Original ==
    /\ Exhausted("soft_write") =>
          (AttemptsOf("hard_write") = {} /\ ocr_data = None)
    /\ \A i \in FailedOf("hard_write") :
          (i = Len(writes) /\ Done /\ ocr_data = None)

\* C5 (amended): a failed hard-error attempt is swallowed: it is the last
\* write of the run and the OCR payload stays null.  When all 3 attempts of
\* the soft-error write fail, the last failure is re-raised to the outer
\* handler, which makes one hard-error attempt with {"error": <message of
\* that failure>}; the payload stays null only if that attempt fails too.
C5_ErrorWriteFailure ==
    /\ \A i \in FailedOf("hard_write") :
          (i = Len(writes) /\ Done /\ ocr_data = None)
    /\ Exhausted("soft_write") =>
          /\ AttemptsOf("soft_write") = 1..max_retries
          /\ exc = writes[max_retries].error
          /\ pc \in {"hard_write", "done"}
          /\ Done =>
                /\ Len(writes) = max_retries + 1
                /\ writes[max_retries + 1].write = "hard_write"
                /\ writes[max_retries + 1].values
                      = [error |-> writes[max_retries].error[1]]
                /\ (writes[max_retries + 1].error = None)
                      => ocr_data = Some(writes[max_retries + 1].values)

C5_Witness ==
    /\ Done
    /\ Exhausted("soft_write")
    /\ FailedOf("hard_write") = {max_retries + 1}
    /\ ocr_data = None

\* C6: in the success path, if the first two commit attempts raise and the
\* third succeeds, the run ends with the row holding the success payload
\* written by the third attempt: failed attempts leave the row unchanged, no
\* error payload is written, and no commit is attempted after the
\* successful one.
C6_ThirdAttemptPersists ==
    /\ (writes # <<>>
          /\ \A i \in DOMAIN writes :
                writes[i].write = "success_write" /\ writes[i].error # None)
          => ocr_data = None
    /\ (/\ Len(writes) >= max_retries
        /\ \A i \in 1..(max_retries - 1) :
              writes[i].write = "success_write" /\ writes[i].error # None
        /\ writes[max_retries].error = None)
          => /\ Done
             /\ Len(writes) = max_retries
             /\ writes[max_retries].write = "success_write"
             /\ ocr_data = Some(SuccessPayload)
             /\ "error" \notin DOMAIN ocr_data[1]

C6_Witness ==
    /\ Done
    /\ Len(writes) = max_retries
    /\ FailedOf("success_write") = 1..(max_retries - 1)
    /\ Committed = {max_retries}
    /\ ocr_data = Some(writes[max_retries].values)

\* C7 (as stated): the OCR payload is mutated exactly once per run: never
\* have two commits succeeded, and when the run has ended exactly one has.
C7_Original ==
    /\ Cardinality(Committed) <= 1
    /\ Done => Cardinality(Committed) = 1

\* C7 (amended): the OCR payload is mutated at most once per run, at the
\* terminal transition: never have two commits succeeded, none has before
\* the run ends, and when the run has ended exactly one has (the last
\* attempt, whose values the row holds) unless every attempt of the run
\* failed, the last being the hard-error attempt, and the payload is null.
C7_AtMostOnce ==
    /\ Cardinality(Committed) <= 1
    /\ ~Done => (Committed = {} /\ ocr_data = None)
    /\ Done =>
          \/ /\ Committed = {Len(writes)}
             /\ ocr_data = Some(writes[Len(writes)].values)
          \/ /\ Committed = {}
             /\ ocr_data = None
             /\ writes # <<>>
             /\ writes[Len(writes)].write = "hard_write"

C7_Witness ==
    /\ Done
    /\ Committed = {}
    /\ Len(writes) = max_retries + 1
    /\ ocr_data = None

\* C8: in every reachable state the OCR payload is null, a success payload
\* with exactly the keys text, structured_data and bounding_boxes, or an
\* error payload with the single key "error"; the soft-error write never
\* carries keys other than "error".
C8_PayloadShape ==
    /\ \/ ocr_data = None
       \/ DOMAIN ocr_data[1] = {"text", "structured_data", "bounding_boxes"}
       \/ DOMAIN ocr_data[1] = {"error"}
    /\ \A i \in AttemptsOf("soft_write") : DOMAIN writes[i].values = {"error"}

\* C9: whenever the analysis of a block response returns (a clean analysis
\* result), the run calls process_ocr_text exactly once, with the full text,
\* whatever form pairs the document contains.
C9_CleanAnalysisStructures ==
    (/\ textract # None
     /\ textract[1].kind = "response"
     /\ ocr_result # None
     /\ pc \notin {"analyze", "structure"})
        => llm_calls = <<ocr_result[1].text>>

\* C10: once the structuring step has returned a value, its fallback object
\* included, the run takes the success write: every attempt of the retry
\* loop carries {text, structured_data: the returned value, bounding_boxes},
\* the row holds it once an attempt commits, and an error payload is written
\* only for 3 failed commits, with the message of the last commit failure.
C10_StructuringResultPersisted ==
    structured_data # None =>
        /\ AttemptsOf("soft_write") = {}
        /\ pc \in {"success_write", "hard_write", "done"}
        /\ \A i \in DOMAIN writes :
              i <= max_retries =>
                 /\ writes[i].write = "success_write"
                 /\ writes[i].values = SuccessPayload
        /\ (AttemptsOf("success_write") \cap Committed # {})
              => (Done /\ ocr_data = Some(SuccessPayload))
        /\ \A i \in AttemptsOf("hard_write") :
              /\ Exhausted("success_write")
              /\ writes[i].values = [error |-> writes[max_retries].error[1]]
        /\ (Done /\ ~Exhausted("success_write"))
              => ocr_data = Some(SuccessPayload)

C10_Witness ==
    /\ Done
    /\ structured_data # None
    /\ DOMAIN structured_data[1] = {"error", "raw_text"}
    /\ Len(writes) = 2
    /\ ocr_data = Some(SuccessPayload)

(***************************************************************************)
(* C11: a pipeline run for a document id is scheduled exactly once, and    *)
(* only after the storage upload and the database insert of the upload     *)
(* request have succeeded; it runs after the upload response is produced,  *)
(* and a failed upload request schedules none.  No two pipeline runs exist *)
(* for the same document id.                                               *)
(***************************************************************************)
C11_ScheduledOnce ==
    /\ [](/\ \A i, j \in DOMAIN tasks :
                tasks[i].pdf_id = tasks[j].pdf_id => i = j
          /\ upload_response = None => tasks = <<>>
          /\ upload_response # None =>
                IF upload_response[1].status_code = 200
                THEN Len(tasks) = 1 /\ tasks[1].pdf_id = upload_response[1].body.id
                ELSE tasks = <<>>
          /\ (textract # None \/ pc # "analyze") =>
                upload_response # None /\ tasks # <<>>)
    /\ [][tasks' # tasks =>
            /\ s3_key # None
            /\ s3_key[1] \in s3_objects
            /\ tasks' = Append(tasks, [pdf_id |-> pdf_id, s3_key |-> s3_key[1]])
            /\ pdf_id \in documents'
            /\ upload_response = None
            /\ upload_response' # None]_vars

\* An accepted upload whose pipeline has run to its end.
C11_Witness ==
    /\ upload_response # None
    /\ upload_response[1].status_code = 200
    /\ Len(tasks) = 1
    /\ pc = "done"

(***************************************************************************)
(* C12: every commit attempt of process_pdf_background (soft-error,        *)
(* success and hard-error writes) runs in a session opened for that        *)
(* attempt alone and closed before the next attempt starts: no session is  *)
(* used by two attempts, and the pipeline never uses the session of the    *)
(* upload request.                                                         *)
(***************************************************************************)
C12_FreshSessionPerAttempt ==
    /\ \A i \in DOMAIN writes :
          \E j \in DOMAIN sessions :
              /\ sessions[j].by = "process_pdf_background"
              /\ sessions[j].attempts = {i}
              /\ sessions[j].closed
              /\ \A k \in DOMAIN sessions : i \in sessions[k].attempts => k = j
    /\ \A j \in DOMAIN sessions :
          /\ Cardinality(sessions[j].attempts) <= 1
          /\ sessions[j].by = "upload_pdf" => sessions[j].attempts = {}

\* Three failed soft-error attempts and the hard-error attempt: four
\* sessions of the pipeline after the one of the request.
C12_Witness ==
    /\ Len(writes) = max_retries + 1
    /\ Len(sessions) = max_retries + 2
    /\ sessions[1].by = "upload_pdf"
    /\ writes[1].write = "soft_write"

(***************************************************************************)
(* Properties of the analysis of one response.  The response analysed is   *)
(* textract[1].blocks; what the claims say of it is written here from the  *)
(* blocks themselves.                                                      *)
(***************************************************************************)
Analysed == textract # None /\ textract[1].kind = "response"
AnalysedBlocks == textract[1].blocks
FormData == ocr_result[1].structured_data[1]

IsKeyBlock(b) == b.BlockType = "KEY_VALUE_SET" /\ b.EntityTypes = <<"KEY">>
KeyIndexes(blocks) == {i \in DOMAIN blocks : IsKeyBlock(blocks[i])}

\* The ids a block names in its relationships of one type, in order.
RelIds(b, type) ==
    Flatten([r \in DOMAIN b.Relationships |->
                IF b.Relationships[r].Type = type THEN b.Relationships[r].Ids
                ELSE <<>>])

BlockOf(blocks, id) == CHOOSE b \in {blocks[i] : i \in DOMAIN blocks} : b.Id = id
Resolves(blocks, id) == \E i \in DOMAIN blocks : blocks[i].Id = id

\* The texts of the WORD blocks among ids, in order; ids without a block
\* give nothing.
WordTexts(blocks, ids) ==
    Flatten([i \in DOMAIN ids |->
                IF Resolves(blocks, ids[i]) /\ BlockOf(blocks, ids[i]).BlockType = "WORD"
                THEN <<BlockOf(blocks, ids[i]).Text>>
                ELSE <<>>])

RECURSIVE JoinSpace(_)
JoinSpace(texts) ==
    IF texts = <<>> THEN ""
    ELSE IF Len(texts) = 1 THEN texts[1]
    ELSE texts[1] \o " " \o JoinSpace(Tail(texts))

\* The ids of the words of the VALUE targets of b, target after target.
TargetWordIds(blocks, b) ==
    Flatten([t \in DOMAIN RelIds(b, "VALUE") |->
                IF Resolves(blocks, RelIds(b, "VALUE")[t])
                THEN RelIds(BlockOf(blocks, RelIds(b, "VALUE")[t]), "CHILD")
                ELSE <<>>])

KeyTextOf(blocks, b) == Strip(JoinSpace(WordTexts(blocks, RelIds(b, "CHILD"))))
ValueTextOf(blocks, b) == Strip(JoinSpace(WordTexts(blocks, TargetWordIds(blocks, b))))

\* Whether every id named on the two hops from a KEY block has a block.
AllResolve(blocks) ==
    \A i \in KeyIndexes(blocks) :
        /\ \A c \in DOMAIN RelIds(blocks[i], "CHILD") :
              Resolves(blocks, RelIds(blocks[i], "CHILD")[c])
        /\ \A t \in DOMAIN RelIds(blocks[i], "VALUE") :
              /\ Resolves(blocks, RelIds(blocks[i], "VALUE")[t])
              /\ \A c \in DOMAIN RelIds(BlockOf(blocks, RelIds(blocks[i], "VALUE")[t]), "CHILD") :
                    Resolves(blocks, RelIds(BlockOf(blocks, RelIds(blocks[i], "VALUE")[t]), "CHILD")[c])

\* The KEY blocks that give a pair: key text and value text are not empty.
PairIndexes(blocks) ==
    {i \in KeyIndexes(blocks) :
        KeyTextOf(blocks, blocks[i]) # "" /\ ValueTextOf(blocks, blocks[i]) # ""}

(***************************************************************************)
(* C13: in _extract_form_data a relationship target that is not in the     *)
(* block index of the response (a dangling CHILD or VALUE reference, at    *)
(* either hop) contributes nothing and is skipped: the function returns    *)
(* the mapping built from the resolvable targets and never fails.          *)
(***************************************************************************)
C13_DanglingSkipped ==
    Analysed =>
        /\ exc = None
        /\ ocr_result # None
        /\ \A i \in PairIndexes(AnalysedBlocks) :
              KeyTextOf(AnalysedBlocks, AnalysedBlocks[i]) \in DOMAIN FormData

(***************************************************************************)
(* C14: for every KEY block the key text is the texts of its CHILD targets *)
(* of type WORD, in relationship order, joined by single spaces and        *)
(* trimmed, and the value text is built the same way from the WORD         *)
(* children of the blocks reached through its VALUE relationships; other   *)
(* children contribute nothing.  Key children "Name", ":" and value child  *)
(* "John" give exactly {"Name :": "John"}.                                 *)
(***************************************************************************)
C14_PairTexts ==
    (Analysed /\ ocr_result # None) =>
        /\ \A i \in PairIndexes(AnalysedBlocks) :
              LET key_text == KeyTextOf(AnalysedBlocks, AnalysedBlocks[i])
                  value_text == ValueTextOf(AnalysedBlocks, AnalysedBlocks[i])
              IN  /\ key_text \in DOMAIN FormData
                  /\ \/ FormData[key_text] = value_text
                     \/ \E j \in PairIndexes(AnalysedBlocks) :
                           /\ j # i
                           /\ KeyTextOf(AnalysedBlocks, AnalysedBlocks[j]) = key_text
        /\ \A k \in DOMAIN FormData :
              \E i \in PairIndexes(AnalysedBlocks) :
                  /\ KeyTextOf(AnalysedBlocks, AnalysedBlocks[i]) = k
                  /\ ValueTextOf(AnalysedBlocks, AnalysedBlocks[i]) = FormData[k]
        /\ AnalysedBlocks = Field("A", <<Child("WORD", "Name"), Child("WORD", ":")>>,
                                  "one", <<Target("words", <<Child("WORD", "John")>>)>>)
              => DOMAIN FormData = {"Name :"} /\ FormData["Name :"] = "John"

\* The response of the example has been analysed.
C14_Witness ==
    /\ Analysed
    /\ ocr_result # None
    /\ AnalysedBlocks = Field("A", <<Child("WORD", "Name"), Child("WORD", ":")>>,
                              "one", <<Target("words", <<Child("WORD", "John")>>)>>)
    /\ DOMAIN FormData = {"Name :"}
    /\ FormData["Name :"] = "John"

(***************************************************************************)
(* C15: the mapping has an entry for a KEY block only if its key text and  *)
(* its value text are both non-empty after trimming: a KEY block with no   *)
(* VALUE relationship, or whose VALUE target has no CHILD words, or with   *)
(* no key words, adds no entry; every key and value of the mapping is a    *)
(* non-empty string.                                                       *)
(***************************************************************************)
C15_OnlyNonEmptyPairs ==
    (Analysed /\ ocr_result # None) =>
        /\ \A k \in DOMAIN FormData : k # "" /\ FormData[k] # ""
        /\ \A k \in DOMAIN FormData :
              \E i \in KeyIndexes(AnalysedBlocks) :
                  /\ KeyTextOf(AnalysedBlocks, AnalysedBlocks[i]) = k
                  /\ RelIds(AnalysedBlocks[i], "VALUE") # <<>>
                  /\ ValueTextOf(AnalysedBlocks, AnalysedBlocks[i]) # ""
        /\ (\A i \in KeyIndexes(AnalysedBlocks) :
                \/ RelIds(AnalysedBlocks[i], "VALUE") = <<>>
                \/ ValueTextOf(AnalysedBlocks, AnalysedBlocks[i]) = ""
                \/ KeyTextOf(AnalysedBlocks, AnalysedBlocks[i]) = "")
              => DOMAIN FormData = {}

\* A KEY block with key words whose VALUE target has no words: no entry.
C15_Witness ==
    /\ Analysed
    /\ ocr_result # None
    /\ DOMAIN FormData = {}
    /\ \E i \in KeyIndexes(AnalysedBlocks) :
          /\ KeyTextOf(AnalysedBlocks, AnalysedBlocks[i]) # ""
          /\ RelIds(AnalysedBlocks[i], "VALUE") # <<>>
          /\ ValueTextOf(AnalysedBlocks, AnalysedBlocks[i]) = ""

(***************************************************************************)
(* C16: when several KEY blocks of a response resolve to the same key text *)
(* with different value texts, the mapping has exactly one entry for that  *)
(* key, and its value is that of the KEY block processed last in block     *)
(* order (of those that give a pair).                                      *)
(***************************************************************************)
C16_LastKeyBlockWins ==
    (Analysed /\ ocr_result # None) =>
        \A i, j \in PairIndexes(AnalysedBlocks) :
            LET key_text == KeyTextOf(AnalysedBlocks, AnalysedBlocks[j])
            IN  (/\ i < j
                 /\ KeyTextOf(AnalysedBlocks, AnalysedBlocks[i]) = key_text
                 /\ ValueTextOf(AnalysedBlocks, AnalysedBlocks[i])
                        # ValueTextOf(AnalysedBlocks, AnalysedBlocks[j])
                 /\ \A l \in PairIndexes(AnalysedBlocks) :
                        KeyTextOf(AnalysedBlocks, AnalysedBlocks[l]) = key_text
                            => l <= j)
                => /\ key_text \in DOMAIN FormData
                   /\ FormData[key_text] = ValueTextOf(AnalysedBlocks, AnalysedBlocks[j])
                   /\ FormData[key_text] # ValueTextOf(AnalysedBlocks, AnalysedBlocks[i])

\* Two KEY blocks with key text "Name", values "John" then "Smith".
C16_Witness ==
    /\ Analysed
    /\ ocr_result # None
    /\ \E i, j \in PairIndexes(AnalysedBlocks) :
          /\ i < j
          /\ KeyTextOf(AnalysedBlocks, AnalysedBlocks[i]) = "Name"
          /\ KeyTextOf(AnalysedBlocks, AnalysedBlocks[j]) = "Name"
          /\ ValueTextOf(AnalysedBlocks, AnalysedBlocks[i]) = "John"
          /\ ValueTextOf(AnalysedBlocks, AnalysedBlocks[j]) = "Smith"
    /\ DOMAIN FormData = {"Name"}
    /\ FormData["Name"] = "Smith"

\* The text of one VALUE target on its own.
TargetTextOf(blocks, id) ==
    Strip(JoinSpace(WordTexts(blocks, RelIds(BlockOf(blocks, id), "CHILD"))))

\* The KEY blocks with several VALUE targets whose key text no other KEY
\* block gives.
ManyTargetIndexes(blocks) ==
    {i \in KeyIndexes(blocks) :
        /\ Len(RelIds(blocks[i], "VALUE")) >= 2
        /\ KeyTextOf(blocks, blocks[i]) # ""
        /\ \A j \in KeyIndexes(blocks) :
              KeyTextOf(blocks, blocks[j]) = KeyTextOf(blocks, blocks[i]) => j = i}

LastTarget(b) == RelIds(b, "VALUE")[Len(RelIds(b, "VALUE"))]

(***************************************************************************)
(* C17 as the specification states it: for a KEY block with several VALUE  *)
(* targets the last write wins, the value recorded for the key is the      *)
(* value text of the last VALUE target alone, not a merge.                 *)
(***************************************************************************)
C17_Original ==
    (Analysed /\ ocr_result # None) =>
        \A i \in ManyTargetIndexes(AnalysedBlocks) :
            TargetTextOf(AnalysedBlocks, LastTarget(AnalysedBlocks[i])) # ""
                => /\ KeyTextOf(AnalysedBlocks, AnalysedBlocks[i]) \in DOMAIN FormData
                   /\ FormData[KeyTextOf(AnalysedBlocks, AnalysedBlocks[i])]
                        = TargetTextOf(AnalysedBlocks, LastTarget(AnalysedBlocks[i]))

(***************************************************************************)
(* C17, amended: for a KEY block with several VALUE targets (several VALUE *)
(* relationships, or several identifiers in one) the targets are processed *)
(* in list order and their texts are merged: the value recorded for the    *)
(* key is the WORD texts of all the targets, in target order, joined by    *)
(* single spaces and trimmed, and not the text of the last target alone    *)
(* when an earlier target has words.                                       *)
(***************************************************************************)
C17_ValueMerged ==
    (Analysed /\ ocr_result # None) =>
        \A i \in ManyTargetIndexes(AnalysedBlocks) :
            LET b == AnalysedBlocks[i]
                key_text == KeyTextOf(AnalysedBlocks, b)
                targets == RelIds(b, "VALUE")
            IN  IF ValueTextOf(AnalysedBlocks, b) = ""
                THEN key_text \notin DOMAIN FormData
                ELSE /\ key_text \in DOMAIN FormData
                     /\ FormData[key_text] = ValueTextOf(AnalysedBlocks, b)
                     /\ (\E t \in 1..(Len(targets) - 1) :
                            TargetTextOf(AnalysedBlocks, targets[t]) # "")
                          => FormData[key_text]
                                # TargetTextOf(AnalysedBlocks, LastTarget(b))

\* Targets "John" then "Smith" of the key "Name": the value is "John Smith".
C17_Witness ==
    /\ Analysed
    /\ ocr_result # None
    /\ \E i \in ManyTargetIndexes(AnalysedBlocks) :
          /\ Len(RelIds(AnalysedBlocks[i], "VALUE")) = 2
          /\ TargetTextOf(AnalysedBlocks, RelIds(AnalysedBlocks[i], "VALUE")[1]) = "John"
          /\ TargetTextOf(AnalysedBlocks, RelIds(AnalysedBlocks[i], "VALUE")[2]) = "Smith"
          /\ Len(AnalysedBlocks[i].Relationships) = 3
    /\ DOMAIN FormData = {"Name"}
    /\ FormData["Name"] = "John Smith"

\* The LINE blocks of a response as the claim reads them: the text each
\* contributes, and those with geometry, in block order.
LineTexts(blocks) ==
    Flatten([i \in DOMAIN blocks |->
                IF blocks[i].BlockType = "LINE" THEN <<blocks[i].Text \o "\n">>
                ELSE <<>>])

GeometryLines(blocks) ==
    Flatten([i \in DOMAIN blocks |->
                IF blocks[i].BlockType = "LINE" /\ blocks[i].Geometry # None
                THEN <<blocks[i]>>
                ELSE <<>>])

(***************************************************************************)
(* C18: for any block list _process_textract_response yields a full text   *)
(* equal to the concatenation, in block order, of the text of each LINE    *)
(* block followed by a newline, and a fragment list with exactly one entry *)
(* for each LINE block that has geometry, in block order; a LINE block     *)
(* without geometry adds text and no fragment, other blocks change         *)
(* neither.                                                                *)
(***************************************************************************)
C18_LinesExtracted ==
    Analysed =>
        /\ ocr_result # None
        /\ ocr_result[1].text = Join(LineTexts(AnalysedBlocks))
        /\ Len(ocr_result[1].bounding_boxes) = Len(GeometryLines(AnalysedBlocks))
        /\ \A n \in DOMAIN ocr_result[1].bounding_boxes :
              LET box == ocr_result[1].bounding_boxes[n]
                  line == GeometryLines(AnalysedBlocks)[n]
              IN  /\ box.text = line.Text
                  /\ box.x = line.Geometry[1].Left
                  /\ box.y = line.Geometry[1].Top
                  /\ box.width = line.Geometry[1].Width
                  /\ box.height = line.Geometry[1].Height

(***************************************************************************)
(* C19: the structuring step (process_ocr_text) never raises: when the     *)
(* model output is not valid JSON, or the model call itself fails, it      *)
(* returns a fallback object with an "error" field and a "raw_text" field, *)
(* raw_text being the OCR text passed in and never the unparseable output  *)
(* of the model.                                                           *)
(***************************************************************************)
C19_StructuringNeverRaises ==
    [][\A llm \in LlmOutcomes :
          Structure(llm) =>
              /\ structured_data' # None
              /\ exc' = exc
              /\ pc' = "success_write"
              /\ (llm.kind = "raise" \/ Join(llm.output) = "not json") =>
                    /\ DOMAIN structured_data'[1] = {"error", "raw_text"}
                    /\ structured_data'[1].raw_text = ocr_result[1].text
                    /\ llm.kind # "raise" =>
                          structured_data'[1].raw_text # Join(llm.output)
                    /\ structured_data'[1].error =
                          IF llm.kind = "raise" THEN llm.msg
                          ELSE "Failed to parse structured data"]_vars

\* The fallback of a parse failure for an OCR text with a line in it.
C19_Witness ==
    /\ pc = "success_write"
    /\ llm_calls # <<>>
    /\ llm_calls[1] # ""
    /\ structured_data # None
    /\ DOMAIN structured_data[1] = {"error", "raw_text"}
    /\ structured_data[1].error = "Failed to parse structured data"
    /\ structured_data[1].raw_text = llm_calls[1]

(***************************************************************************)
(* C20: the OCR-result endpoint (get_pdf_ocr) inverts the success write of *)
(* the pipeline: while the OCR payload of the document is unset it answers *)
(* 404 "OCR results not available yet", and once a success payload is      *)
(* persisted it returns an OCRResult whose text, fragment list (same       *)
(* records, same order) and structured data equal the ones persisted,      *)
(* absent structured data defaulting to an empty mapping.                  *)
(***************************************************************************)
C20_OcrEndpointInverts ==
    (ocr_response # None /\ pdf_id \in documents) =>
        /\ ocr_data = None =>
              /\ ocr_response[1].status_code = 404
              /\ ocr_response[1].detail = "OCR results not available yet"
        /\ (ocr_data # None
            /\ DOMAIN ocr_data[1] = {"text", "bounding_boxes", "structured_data"}) =>
              /\ ocr_response[1].status_code = 200
              /\ ocr_response[1].body.text = ocr_data[1].text
              /\ Len(ocr_response[1].body.bounding_boxes)
                    = Len(ocr_data[1].bounding_boxes)
              /\ \A i \in DOMAIN ocr_data[1].bounding_boxes :
                    BoxDict(ocr_response[1].body.bounding_boxes[i])
                        = ocr_data[1].bounding_boxes[i]
              /\ ocr_response[1].body.structured_data
                    = Some(ocr_data[1].structured_data)
        /\ (ocr_data # None /\ "structured_data" \notin DOMAIN ocr_data[1]) =>
              /\ ocr_response[1].status_code = 200
              /\ ocr_response[1].body.structured_data = Some(EmptyDict)

(***************************************************************************)
(* C21: an OCR-stage failure never changes the outcome of the upload call  *)
(* and is observable afterwards through the OCR-result endpoint: once the  *)
(* pipeline has persisted an error payload {"error": m}, the response of   *)
(* get_pdf_ocr surfaces the persisted error: it carries m, and it differs  *)
(* from the response for a document processed successfully with empty      *)
(* text.                                                                   *)
(***************************************************************************)
C21_ErrorSurfaced ==
    /\ textract # None =>
          upload_response # None /\ upload_response[1].status_code = 200
    /\ (/\ ocr_response # None
        /\ pdf_id \in documents
        /\ ocr_data # None
        /\ DOMAIN ocr_data[1] = {"error"}) =>
          /\ ocr_response[1]
                # [status_code |-> 200,
                   body |-> OCRResult("", <<>>, Some(EmptyDict))]
          /\ IF ocr_response[1].status_code = 200
             THEN \/ Contains(ocr_response[1].body.text, ocr_data[1].error)
                  \/ /\ "error" \in DOMAIN ocr_response[1].body.structured_data[1]
                     /\ ocr_response[1].body.structured_data[1].error
                           = ocr_data[1].error
             ELSE Contains(ocr_response[1].detail, ocr_data[1].error)

(***************************************************************************)
(* C22: an upload request that fails validation (content type other than   *)
(* application/pdf, missing filename, or empty file content) is answered   *)
(* with an error and has no side effect: no object is stored in S3, no     *)
(* document record is created and no pipeline run is scheduled.            *)
(***************************************************************************)
C22_InvalidUploadNoEffect ==
    (/\ file # None
     /\ \/ file[1].content_type # "application/pdf"
        \/ file[1].filename = ""
        \/ file[1].content = "") =>
        /\ upc = "responded"
        /\ upload_response # None
        /\ upload_response[1].status_code >= 400
        /\ "detail" \in DOMAIN upload_response[1]
        /\ s3_objects = {}
        /\ documents = {}
        /\ tasks = <<>>
        /\ pc = "analyze"
        /\ textract = None
        /\ writes = <<>>

\* A PDF upload with empty content has been refused.
C22_Witness ==
    /\ file # None
    /\ file[1].content_type = "application/pdf"
    /\ file[1].filename # ""
    /\ file[1].content = ""
    /\ upload_response # None
    /\ upload_response[1].status_code = 500
    /\ upload_response[1].detail = "Failed to upload PDF: 400: File content is empty"

\* The number of steps a run of process_pdf_background has left at most.
StepsLeft ==
    CASE pc = "analyze" -> max_retries + 3
      [] pc = "structure" -> max_retries + 2
      [] pc \in {"soft_write", "success_write"} -> (max_retries - retry_count) + 1
      [] pc = "hard_write" -> 1
      [] pc = "done" -> 0

(***************************************************************************)
(* C23: every run of process_pdf_background terminates without letting an  *)
(* exception escape, whatever analysis, structuring and commit failures    *)
(* occur, and makes at most 4 commit attempts in all: at most 3 in the     *)
(* soft-error or success retry loop and at most 1 in the outer handler.    *)
(***************************************************************************)
C23_TerminatesInFourAttempts ==
    /\ [](/\ Len(writes) <= max_retries + 1
          /\ Cardinality(AttemptsOf("soft_write") \cup AttemptsOf("success_write"))
                <= max_retries
          /\ Cardinality(AttemptsOf("hard_write")) <= 1
          /\ pc \in {"analyze", "structure", "soft_write", "success_write",
                     "hard_write", "done"}
          /\ pc \in {"soft_write", "success_write"} =>
                retry_count < max_retries /\ ~success /\ ocr_result # None
          /\ pc = "hard_write" => exc # None
          /\ pc = "done" =>
                \/ Committed # {}
                \/ /\ AttemptsOf("hard_write") # {}
                   /\ writes[Len(writes)].write = "hard_write")
    /\ [][pipeline_vars' # pipeline_vars => StepsLeft' < StepsLeft]_vars

\* Three failed attempts of the success write and the failed attempt of the
\* handler: the run has ended after four attempts.
C23_Witness ==
    /\ pc = "done"
    /\ Len(writes) = max_retries + 1
    /\ Committed = {}
    /\ writes[1].write = "success_write"
    /\ writes[Len(writes)].write = "hard_write"

(***************************************************************************)
(* C25: in upload_pdf, if the S3 upload succeeded and the database insert  *)
(* fails on all 3 commit attempts, the handler attempts to delete the      *)
(* uploaded object, schedules no pipeline run, leaves no document record   *)
(* and answers 500; after a failed upload whose cleanup delete succeeds no *)
(* S3 object exists without a document record, and an upload creates at    *)
(* most one record.                                                        *)
(***************************************************************************)
C25_FailedInsertCleansUp ==
    /\ [](Cardinality(documents) <= 1)
    /\ [][(/\ upc = "cleanup"
           /\ upc' = "responded"
           /\ \A i \in DOMAIN upload_attempts : upload_attempts[i] = "commit") =>
              /\ Len(upload_attempts) = max_retries
              /\ s3_key # None
              /\ CleanupOk \/ CleanupFail
              /\ tasks' = <<>>
              /\ documents' = {}
              /\ upload_response'[1].status_code = 500
              /\ s3_objects' \subseteq s3_objects
              /\ CleanupOk => s3_objects' = {}]_vars

\* The insert failed three times at commit, the object was deleted and the
\* request answered 500.
C25_Witness ==
    /\ upc = "responded"
    /\ file # None
    /\ upload_response # None
    /\ upload_response[1].status_code = 500
    /\ upload_response[1].detail = "Failed to upload PDF: connection is closed"
    /\ s3_objects = {}
    /\ documents = {}
    /\ tasks = <<>>

(***************************************************************************)
(* C24: under any interleaving of delete_pdf with a run of                 *)
(* process_pdf_background for the same document, a document whose delete   *)
(* has committed never reappears: the terminal write of the pipeline is an *)
(* update by id that matches no row and creates none, and the pipeline     *)
(* still ends without a failure; and if the write of the pipeline commits  *)
(* first, the delete still removes the document.                           *)
(***************************************************************************)
C24_DeletedStaysDeleted ==
    /\ [](pdf_id \notin documents => ocr_data = None)
    /\ [][(upc = "responded" /\ pdf_id \notin documents) =>
              pdf_id \notin documents']_vars
    /\ [][(pdf_id \notin documents
           /\ (SoftCommitOk \/ SuccessCommitOk \/ HardCommitOk)) =>
              /\ pc' = "done"
              /\ writes'[Len(writes')].error = None
              /\ documents' = documents
              /\ ocr_data' = None]_vars
    /\ [][DeleteCommitOk =>
              /\ pdf_id \notin documents'
              /\ ocr_data' = None
              /\ api_response'[1].response.status_code = 200
              /\ pc' = pc /\ writes' = writes]_vars

\* The delete committed while the run was in flight, and the run has then
\* ended with a write that committed: no row, no payload.
C24_Witness ==
    /\ tasks # <<>>
    /\ pdf_id \notin documents
    /\ pc = "done"
    /\ Committed # {}
    /\ writes[Len(writes)].write = "success_write"
    /\ api_response = None
    /\ ocr_data = None

(***************************************************************************)
(* C26: get_pdf, get_pdf_url, get_pdf_ocr and delete_pdf act only on the   *)
(* documents of the requesting user: asked by another user for the id of   *)
(* the document, each answers 404 "PDF not found", reveals nothing of the  *)
(* document (payload, storage key, presigned URL) and leaves the record    *)
(* and its S3 object unchanged; get_pdfs returns only the documents of the *)
(* requesting user.                                                        *)
(***************************************************************************)
NonOwners == Users \ {Uploader}

NotFound == HTTPException(404, "PDF not found")

\* The answers given when the select itself raised: they carry the message of
\* the database error and nothing of a row.
SelectFailed ==
    {HTTPException(500, db) : db \in SelectOutcomes \ {"rows"}}
    \cup {HTTPException(500, "Failed to delete PDF: " \o db) :
             db \in SelectOutcomes \ {"rows"}}

C26_OwnerOnly ==
    /\ [](api_response # None =>
            LET r == api_response[1] IN
            /\ (r.endpoint = "get_pdfs" /\ r.response.status_code = 200) =>
                  \A i \in DOMAIN r.response.body :
                      r.response.body[i].user_id = r.user
            /\ (r.endpoint # "get_pdfs" /\ r.user \in NonOwners) =>
                  r.response \in {NotFound} \cup SelectFailed)
    /\ [][(api_response' # None /\ api_response'[1].user \in NonOwners) =>
              /\ documents' = documents
              /\ s3_objects' = s3_objects
              /\ ocr_data' = ocr_data]_vars
    /\ [][\A user \in NonOwners, deleted \in BOOLEAN :
              ~DeleteFile(user, deleted)]_vars

\* Another user asked to delete the document while its row, its payload and
\* its object exist, and was answered 404.
C26_Witness ==
    /\ api_response # None
    /\ api_response[1].endpoint = "delete_pdf"
    /\ api_response[1].user \in NonOwners
    /\ api_response[1].response = NotFound
    /\ pdf_id \in documents
    /\ GeneratedKey \in s3_objects
    /\ ocr_data # None

=============================================================================
